---------------------------- MODULE Spec2Model ----------------------------
(***************************************************************************)
(* A model of alloy-dyn-parser (src/src/lib.rs): Parser::parse, which      *)
(* matches a raw log against an ABI, decodes it and builds a KeyedEvent,   *)
(* and dyn_sol_to_json, which converts a decoded DynSolValue into a        *)
(* serde_json Value.                                                       *)
(*                                                                         *)
(* Representation.                                                         *)
(*   DynSolValue   <<"Bool", b>>  <<"Int", i, bits>>  <<"Uint", u, bits>>  *)
(*                 <<"FixedBytes", word, size>>  <<"Address", a>>          *)
(*                 <<"Function", bytes>>  <<"Bytes", bytes>>               *)
(*                 <<"String", s>>  <<"Array", elems>>                     *)
(*                 <<"FixedArray", elems>>  <<"Tuple", elems>>             *)
(*                 <<"CustomStruct", name, prop_names, tuple>>             *)
(*   Value (JSON)  <<"Bool", b>>  <<"String", s>>  <<"Array", elems>>      *)
(*                 <<"Object", entries>>, entries being the sequence of    *)
(*                 <<key, value>> pairs in the map's iteration order       *)
(*   Result        <<"Ok", name, data>>  <<"Err", "UnknownEvent", sel>>    *)
(*                 <<"Err", "DecodingError", diagnostic>>  <<"Panic">>     *)
(*   a byte is a number in 0..255, a 32-byte topic or data word a small    *)
(*   number, a selector the number of its hash.                            *)
(***************************************************************************)
EXTENDS Integers, Sequences, FiniteSets, TLC

VARIABLES
    preserve_order, \* build of serde_json::Map: TRUE IndexMap, FALSE BTreeMap
    abi,            \* the JsonAbi the Parser borrows: its events, in events() order
    abi_at_new,     \* history: the JsonAbi as it was when Parser::new took it
    log,            \* the Log of the last parse call
    failed_before,  \* history: a parse call before the last one failed
    result,         \* what the last parse call returned
    val,            \* the DynSolValue of the last dyn_sol_to_json call
    json            \* what the last dyn_sol_to_json call returned

vars == <<preserve_order, abi, abi_at_new, log, failed_before, result, val, json>>

----------------------------------------------------------------------------
(* Bounds of the model.                                                    *)

\* most parameters an event definition declares
MaxParams == 2
\* most elements a container value holds
MaxElems == 2
\* deepest nesting of containers in a decoded value
MaxDepth == 2

----------------------------------------------------------------------------
(* Text conversions used by dyn_sol_to_json.                               *)

Digits == <<"0", "1", "2", "3", "4", "5", "6", "7", "8", "9">>

HexDigits == Digits \o <<"a", "b", "c", "d", "e", "f">>

Base64Alphabet ==
    << "A", "B", "C", "D", "E", "F", "G", "H", "I", "J", "K", "L", "M",
       "N", "O", "P", "Q", "R", "S", "T", "U", "V", "W", "X", "Y", "Z",
       "a", "b", "c", "d", "e", "f", "g", "h", "i", "j", "k", "l", "m",
       "n", "o", "p", "q", "r", "s", "t", "u", "v", "w", "x", "y", "z" >>
    \o Digits \o <<"+", "/">>

\* Uint::to_string: the base-10 digits of an unsigned integer
RECURSIVE UintToString(_)
UintToString(n) ==
    IF n < 10 THEN Digits[n + 1]
    ELSE UintToString(n \div 10) \o Digits[(n % 10) + 1]

\* Signed::to_dec_string: a leading "-" for a negative value, then the digits
IntToDecString(i) ==
    IF i < 0 THEN "-" \o UintToString(-i) ELSE UintToString(i)

\* BASE64_STANDARD.encode: 3 bytes to 4 characters, "=" padding
RECURSIVE Base64Encode(_)
Base64Encode(b) ==
    IF Len(b) = 0 THEN ""
    ELSE IF Len(b) = 1 THEN
        Base64Alphabet[(b[1] \div 4) + 1]
        \o Base64Alphabet[((b[1] % 4) * 16) + 1] \o "=="
    ELSE IF Len(b) = 2 THEN
        Base64Alphabet[(b[1] \div 4) + 1]
        \o Base64Alphabet[((b[1] % 4) * 16 + (b[2] \div 16)) + 1]
        \o Base64Alphabet[((b[2] % 16) * 4) + 1] \o "="
    ELSE
        Base64Alphabet[(b[1] \div 4) + 1]
        \o Base64Alphabet[((b[1] % 4) * 16 + (b[2] \div 16)) + 1]
        \o Base64Alphabet[((b[2] % 16) * 4 + (b[3] \div 64)) + 1]
        \o Base64Alphabet[(b[3] % 64) + 1]
        \o Base64Encode(SubSeq(b, 4, Len(b)))

\* lower-case hex of a byte string
RECURSIVE HexEncode(_)
HexEncode(b) ==
    IF Len(b) = 0 THEN ""
    ELSE HexDigits[(b[1] \div 16) + 1] \o HexDigits[(b[1] % 16) + 1]
         \o HexEncode(Tail(b))

\* Address::to_string: "0x" and the EIP-55 checksummed hex. The checksum
\* case comes from a keccak hash; it is tabulated for the addresses used.
AddressToString(a) ==
    "0x" \o CASE a = "0000000000000000000000000000000000000000"
                   -> "0000000000000000000000000000000000000000"
              [] a = "d8da6bf26964af9d7eed9e03e53415d37aa96045"
                   -> "d8dA6BF26964aF9D7eEd9e03E53415D37aA96045"

\* Function::to_string: "0x" and the hex of the 24 bytes
FunctionToString(p) == "0x" \o HexEncode(p)

----------------------------------------------------------------------------
(* serde_json::Map<String, Value>.  A map is the sequence of its           *)
(* <<key, value>> entries in iteration order.  The crate builds Map over   *)
(* a BTreeMap (iteration in ascending key order) unless its preserve_order *)
(* feature is on, and then over an IndexMap (iteration in the order the    *)
(* keys were first inserted).  lib.rs does not fix the feature, so the     *)
(* build is a choice made in Init.                                         *)

\* the keys that occur, in ascending order of Rust's String Ord (byte-wise)
KeyOrder == <<"a", "b", "from", "owner", "to", "value">>

KeyRank(k) == CHOOSE i \in DOMAIN KeyOrder : KeyOrder[i] = k

KeyLess(k1, k2) == KeyRank(k1) < KeyRank(k2)

MapKeys(m) == [i \in DOMAIN m |-> m[i][1]]

MapHas(m, k) == \E i \in DOMAIN m : m[i][1] = k

MapGet(m, k) == m[CHOOSE i \in DOMAIN m : m[i][1] = k][2]

\* Map::insert keeping the first value of a key: the mutation of MapInsert
MapInsertKeepFirst(m, k, v) ==
    IF MapHas(m, k) THEN m
    ELSE IF preserve_order THEN Append(m, <<k, v>>)
    ELSE LET n == Cardinality({i \in DOMAIN m : KeyLess(m[i][1], k)})
         IN  SubSeq(m, 1, n) \o << <<k, v>> >> \o SubSeq(m, n + 1, Len(m))

\* Map::insert: a key already present keeps its place and takes the new
\* value; a new key goes last (IndexMap) or to its sorted place (BTreeMap)
MapInsert(m, k, v) ==
    IF MapHas(m, k) THEN
        [i \in DOMAIN m |-> IF m[i][1] = k THEN <<k, v>> ELSE m[i]]
    ELSE IF preserve_order THEN Append(m, <<k, v>>)
    ELSE LET n == Cardinality({i \in DOMAIN m : KeyLess(m[i][1], k)})
         IN  SubSeq(m, 1, n) \o << <<k, v>> >> \o SubSeq(m, n + 1, Len(m))

\* Map's FromIterator (collect): the pairs are inserted one by one, in order
RECURSIVE MapExtend(_, _)
MapExtend(m, pairs) ==
    IF pairs = <<>> THEN m
    ELSE MapExtend(MapInsert(m, pairs[1][1], pairs[1][2]), Tail(pairs))

MapCollect(pairs) == MapExtend(<<>>, pairs)

\* Iterator::zip: pairs up to the end of the shorter sequence
Zip(s, t) ==
    [i \in 1..(IF Len(s) < Len(t) THEN Len(s) ELSE Len(t)) |-> <<s[i], t[i]>>]

----------------------------------------------------------------------------
(* dyn_sol_to_json.                                                        *)

\* Value::Bool as a JSON string: the mutation of JsonBool
JsonBoolAsString(b) == <<"String", IF b THEN "true" ELSE "false">>

JsonBool(b) == <<"Bool", b>>

JsonString(s) == <<"String", s>>

\* an array that loses its last element: the mutation of JsonArray
JsonArrayDropLast(elems) ==
    <<"Array", IF elems = <<>> THEN <<>> ELSE SubSeq(elems, 1, Len(elems) - 1)>>

\* Value::Array of the collected elements
JsonArray(elems) == <<"Array", elems>>

\* field names paired with the values in reverse: the mutation of StructObject
StructObjectReversed(prop_names, values) ==
    <<"Object",
      MapCollect(Zip(prop_names,
                     [i \in DOMAIN values |-> values[Len(values) + 1 - i]]))>>

\* Value::Object of prop_names zipped with the normalized tuple; the
\* struct's name is not used
StructObject(prop_names, values) ==
    <<"Object", MapCollect(Zip(prop_names, values))>>

RECURSIVE DynSolToJson(_)
DynSolToJson(v) ==
    CASE v[1] = "Bool"         -> JsonBool(v[2])
      [] v[1] = "Int"          -> JsonString(IntToDecString(v[2]))
      [] v[1] = "Uint"         -> JsonString(UintToString(v[2]))
      [] v[1] = "FixedBytes"   -> JsonString(Base64Encode(v[2]))
      [] v[1] = "Address"      -> JsonString(AddressToString(v[2]))
      [] v[1] = "Function"     -> JsonString(FunctionToString(v[2]))
      [] v[1] = "Bytes"        -> JsonString(Base64Encode(v[2]))
      [] v[1] = "String"       -> JsonString(v[2])
      [] v[1] = "Array"        ->
            JsonArray([i \in DOMAIN v[2] |-> DynSolToJson(v[2][i])])
      [] v[1] = "FixedArray"   ->
            JsonArray([i \in DOMAIN v[2] |-> DynSolToJson(v[2][i])])
      [] v[1] = "Tuple"        ->
            JsonArray([i \in DOMAIN v[2] |-> DynSolToJson(v[2][i])])
      [] v[1] = "CustomStruct" ->
            StructObject(v[3], [i \in DOMAIN v[4] |-> DynSolToJson(v[4][i])])

----------------------------------------------------------------------------
(* The ABI and the log.  An event definition is                            *)
(* [name, selector, inputs], an input [name, ty, indexed]; a log is        *)
(* [topics, data], data being the ABI words of the body.                   *)

ParamNames == {"from", "to"}

ParamTypes == {"uint256", "bool"}

\* the selectors a log's first topic takes: Transfer's and Approval's
Selectors == {1, 2}

EventParams == [name : ParamNames, ty : ParamTypes, indexed : BOOLEAN]

SeqsUpTo(S, n) == UNION {[1..k -> S] : k \in 0..n}

Transfer(inputs) == [name |-> "Transfer", selector |-> 1, inputs |-> inputs]

Approval ==
    [name |-> "Approval", selector |-> 2,
     inputs |-> << [name |-> "owner", ty |-> "uint256", indexed |-> TRUE],
                   [name |-> "value", ty |-> "uint256", indexed |-> FALSE] >>]

\* the interface descriptions a Parser is built over: none, one event, or
\* two events in events() order (by name)
Abis ==
    {<<>>}
    \cup {<<Transfer(ps)>> : ps \in SeqsUpTo(EventParams, MaxParams)}
    \cup {<<Approval, Transfer(ps)>> : ps \in SeqsUpTo(EventParams, MaxParams)}

\* the topic lists of the logs: none, or a selector and up to MaxParams
\* indexed words 0, 1, 2, ..
TopicLists ==
    {<<>>}
    \cup {<<s>> \o [i \in 1..n |-> i - 1] : s \in Selectors, n \in 0..MaxParams}

\* the data buffers of the logs: up to MaxParams body words 1, 2, 3, ..
DataLists == {[i \in 1..n |-> i] : n \in 0..MaxParams}

\* the logs parse is called with
Logs == [topics : TopicLists, data : DataLists]

----------------------------------------------------------------------------
(* EventExt::decode_log_parts of alloy_dyn_abi, which parse calls.  It is  *)
(* not part of lib.rs; this is the decoder's contract for the two          *)
(* parameter types of the model: with validate it wants one topic for the  *)
(* selector and one for every indexed parameter, it wants a data word for  *)
(* every body parameter, and a body bool must be the word 0 or 1.  It      *)
(* returns <<"Ok", indexed, body>> or <<"Err", diagnostic>>.               *)

\* an indexed value is read from its topic and never fails
DecodeTopic(ty, w) ==
    IF ty = "bool" THEN <<"Bool", w # 0>> ELSE <<"Uint", w, 256>>

DecodeLogParts(def, topics, data, validate) ==
    LET ins  == SelectSeq(def.inputs, LAMBDA e : e.indexed)
        outs == SelectSeq(def.inputs, LAMBDA e : ~e.indexed)
        rest == IF topics = <<>> THEN <<>> ELSE Tail(topics)
        n    == IF Len(rest) < Len(ins) THEN Len(rest) ELSE Len(ins)
    IN  IF validate /\ Len(topics) # Len(ins) + 1
            THEN <<"Err", "TopicLengthMismatch">>
        ELSE IF topics = <<>>
            THEN <<"Err", "TopicLengthMismatch">>
        ELSE IF validate /\ topics[1] # def.selector
            THEN <<"Err", "EventSignatureMismatch">>
        ELSE IF Len(data) < Len(outs)
            THEN <<"Err", "Overrun">>
        ELSE IF \E i \in DOMAIN outs : outs[i].ty = "bool" /\ data[i] \notin {0, 1}
            THEN <<"Err", "TypeCheckFail">>
        ELSE <<"Ok",
               [i \in 1..n |-> DecodeTopic(ins[i].ty, rest[i])],
               [i \in DOMAIN outs |->
                    IF outs[i].ty = "bool" THEN <<"Bool", data[i] = 1>>
                    ELSE <<"Uint", data[i], 256>>]>>

----------------------------------------------------------------------------
(* Parser::parse.                                                          *)

\* first() with a default in place of unwrap(): the mutation of Selector
SelectorOrDefault(l) ==
    IF l.topics = <<>> THEN <<"Some", 0>> ELSE <<"Some", l.topics[1]>>

\* log.topics.first().unwrap(): panics on an empty topic list
Selector(l) ==
    IF l.topics = <<>> THEN <<"Panic">> ELSE <<"Some", l.topics[1]>>

\* a lookup that falls back to the first definition: the mutation of
\* FindDefinition
FindDefinitionOrFirst(a, s) ==
    IF \E i \in DOMAIN a : a[i].selector = s
    THEN CHOOSE i \in DOMAIN a :
            /\ a[i].selector = s
            /\ \A j \in 1..(i - 1) : a[j].selector # s
    ELSE IF a = <<>> THEN 0 ELSE 1

\* abi.events().find(..): the place of the first definition whose selector
\* is s, 0 for None
FindDefinition(a, s) ==
    IF \E i \in DOMAIN a : a[i].selector = s
    THEN CHOOSE i \in DOMAIN a :
            /\ a[i].selector = s
            /\ \A j \in 1..(i - 1) : a[j].selector # s
    ELSE 0

\* decoding without validation: the mutation of Decode
DecodeUnvalidated(def, l) == DecodeLogParts(def, l.topics, l.data, FALSE)

\* definition.decode_log_parts(topics, &log.data, true), over all topics
Decode(def, l) == DecodeLogParts(def, l.topics, l.data, TRUE)

\* definition.inputs.iter().filter(|e| e.indexed)
Indexed(def) == SelectSeq(def.inputs, LAMBDA e : e.indexed)

\* the filter left out, so that every input counts as body: the mutation of Body
BodyUnfiltered(def) == def.inputs

\* definition.inputs.iter().filter(|e| !e.indexed)
Body(def) == SelectSeq(def.inputs, LAMBDA e : ~e.indexed)

\* the body pairs chained before the indexed ones: the mutation of Pairs
PairsBodyFirst(def, decoded) ==
    Zip(Body(def), decoded[3]) \o Zip(Indexed(def), decoded[2])

\* indexed.zip(decoded.indexed).chain(body.zip(decoded.body))
Pairs(def, decoded) ==
    Zip(Indexed(def), decoded[2]) \o Zip(Body(def), decoded[3])

\* .map(|(k, v)| (k.name.clone(), dyn_sol_to_json(v))).collect()
Values(def, decoded) ==
    LET ps == Pairs(def, decoded)
    IN  MapCollect([i \in DOMAIN ps |-> <<ps[i][1].name, DynSolToJson(ps[i][2])>>])

ParseResult(a, l) ==
    LET selector == Selector(l)
    IN  IF selector[1] = "Panic" THEN <<"Panic">>
        ELSE LET d == FindDefinition(a, selector[2])
             IN  IF d = 0 THEN <<"Err", "UnknownEvent", selector[2]>>
                 ELSE LET decoded == Decode(a[d], l)
                      IN  IF decoded[1] = "Err"
                          THEN <<"Err", "DecodingError", decoded[2]>>
                          ELSE <<"Ok", a[d].name,
                                 <<"Object", Values(a[d], decoded)>>>>

----------------------------------------------------------------------------
(* The parser's state machine: Parser::new, then parse calls.              *)

None == <<"None">>

NoLog == [topics |-> <<>>, data |-> <<>>]

Init ==
    /\ preserve_order \in BOOLEAN
    /\ abi \in Abis
    /\ abi_at_new = abi
    /\ log = NoLog
    /\ failed_before = FALSE
    /\ result = None
    /\ val = None
    /\ json = None

\* a parse that takes the matched definition out of the ABI: the mutation
\* of Parse
ParseConsuming(l) ==
    /\ log' = l
    /\ result' = ParseResult(abi, l)
    /\ abi' = IF result'[1] = "Ok"
              THEN SelectSeq(abi, LAMBDA e : e.name # result'[2])
              ELSE abi
    /\ failed_before' = (failed_before \/ result[1] \in {"Err", "Panic"})
    /\ UNCHANGED <<preserve_order, abi_at_new, val, json>>

\* parse(&self, log: &Log): reads the ABI and the log, returns the result
Parse(l) ==
    /\ log' = l
    /\ result' = ParseResult(abi, l)
    /\ failed_before' = (failed_before \/ result[1] \in {"Err", "Panic"})
    /\ UNCHANGED <<preserve_order, abi, abi_at_new, val, json>>

Next == \E l \in Logs : Parse(l)

Spec == Init /\ [][Next]_vars

----------------------------------------------------------------------------
(* The normalizer on its own: dyn_sol_to_json is public and is called on   *)
(* any DynSolValue.  The values are built from the leaves below by         *)
(* wrapping the last value in a container, next to a sibling.              *)

\* a bytes4 in its 32-byte word, right-padded with zeros
FixedBytesWord == <<222, 173, 190, 239>> \o [i \in 1..28 |-> 0]

\* a function reference: 20 bytes of address, 4 bytes of selector
FunctionBytes == [i \in 1..24 |-> i * 10]

Leaves ==
    { <<"Bool", TRUE>>, <<"Bool", FALSE>>,
      <<"Int", -1, 8>>, <<"Int", 127, 8>>,
      <<"Uint", 0, 8>>, <<"Uint", 255, 8>>,
      <<"FixedBytes", FixedBytesWord, 4>>,
      <<"Address", "d8da6bf26964af9d7eed9e03e53415d37aa96045">>,
      <<"Function", FunctionBytes>>,
      <<"Bytes", <<>>>>, <<"Bytes", <<1, 2, 3>>>>,
      <<"String", "x">> }

LeafTags ==
    {"Bool", "Int", "Uint", "FixedBytes", "Address", "Function", "Bytes", "String"}

SequenceTags == {"Array", "FixedArray", "Tuple"}

\* the elements of a container value
Elems(v) == IF v[1] = "CustomStruct" THEN v[4] ELSE v[2]

RECURSIVE Depth(_)
Depth(v) ==
    IF v[1] \in LeafTags THEN 0
    ELSE LET ds == {Depth(Elems(v)[i]) : i \in DOMAIN Elems(v)}
         IN  1 + (IF ds = {} THEN 0 ELSE CHOOSE d \in ds : \A e \in ds : e <= d)

Sibling == <<"String", "x">>

\* the element lists a container is given: none, or v followed by siblings
ElemLists(v) ==
    {<<>>} \cup {<<v>> \o [i \in 1..n |-> Sibling] : n \in 0..(MaxElems - 1)}

\* the prop_names a struct of n values is given: distinct names, one name
\* for every field, or one name too few
PropNameLists(n) ==
    { SubSeq(KeyOrder, 1, n),
      [i \in 1..n |-> "a"],
      SubSeq(KeyOrder, 1, IF n = 0 THEN 0 ELSE n - 1) }

Wraps(v) ==
    UNION { {<<"Array", es>>, <<"FixedArray", es>>, <<"Tuple", es>>}
            \cup {<<"CustomStruct", "S", ns, es>> : ns \in PropNameLists(Len(es))}
            : es \in ElemLists(v) }

InitNormalizer ==
    /\ preserve_order \in BOOLEAN
    /\ abi = <<>>
    /\ abi_at_new = <<>>
    /\ log = NoLog
    /\ failed_before = FALSE
    /\ result = None
    /\ val = None
    /\ json = None

\* dyn_sol_to_json(v)
Normalize(v) ==
    /\ val' = v
    /\ json' = DynSolToJson(v)
    /\ UNCHANGED <<preserve_order, abi, abi_at_new, log, failed_before, result>>

NormalizeLeaf == \E v \in Leaves : Normalize(v)

NormalizeWrapped ==
    /\ val # None
    /\ Depth(val) < MaxDepth
    /\ \E v \in Wraps(val) : Normalize(v)

NextNormalizer == NormalizeLeaf \/ NormalizeWrapped

SpecNormalizer == InitNormalizer /\ [][NextNormalizer]_vars

----------------------------------------------------------------------------
(* What the properties of parse are stated over: the last call's log and   *)
(* result, and the definition and decoder outcome they should rest on,     *)
(* taken from the ABI and the log directly.                                *)

Called == result[1] # "None"

Matching ==
    IF log.topics = <<>> THEN {}
    ELSE {i \in DOMAIN abi : abi[i].selector = log.topics[1]}

\* parse was called on a log whose first topic is some definition's selector
LookupHit == Called /\ Matching # {}

Definition == abi[CHOOSE i \in Matching : \A j \in Matching : i <= j]

Decoded == DecodeLogParts(Definition, log.topics, log.data, TRUE)

IndexedParams == SelectSeq(Definition.inputs, LAMBDA e : e.indexed)

BodyParams == SelectSeq(Definition.inputs, LAMBDA e : ~e.indexed)

\* the decoder succeeded, with as many values as each partition has parameters
DecodedInFull ==
    /\ LookupHit
    /\ Decoded[1] = "Ok"
    /\ Len(Decoded[2]) = Len(IndexedParams)
    /\ Len(Decoded[3]) = Len(BodyParams)

\* <<name, decoded value>> of every parameter, indexed first, then body
ExpectedPairs ==
    [i \in 1..(Len(IndexedParams) + Len(BodyParams)) |->
        IF i <= Len(IndexedParams)
        THEN <<IndexedParams[i].name, Decoded[2][i]>>
        ELSE <<BodyParams[i - Len(IndexedParams)].name,
               Decoded[3][i - Len(IndexedParams)]>>]

ExpectedNames == [i \in DOMAIN ExpectedPairs |-> ExpectedPairs[i][1]]

Range(s) == {s[i] : i \in DOMAIN s}

Distinct(s) == \A i, j \in DOMAIN s : s[i] = s[j] => i = j

\* the entries of the record's data mapping
Data == result[3][2]

\* C1: a first topic that is no definition's selector gives UnknownEvent
\* carrying that topic, whatever else the log holds
C1_UnknownEvent ==
    (Called /\ log.topics # <<>> /\ Matching = {})
        => result = <<"Err", "UnknownEvent", log.topics[1]>>

C1_Witness ==
    /\ Called
    /\ abi # <<>>
    /\ Len(log.topics) > 1
    /\ log.data # <<>>
    /\ Matching = {}
    /\ result = <<"Err", "UnknownEvent", log.topics[1]>>

\* C2: when the selector matches and the strict decoder fails, the result
\* is DecodingError with the decoder's diagnostic; a record is returned
\* only when the lookup and the decoder both succeed
C2_AllOrNothing ==
    /\ (LookupHit /\ Decoded[1] = "Err")
            => result = <<"Err", "DecodingError", Decoded[2]>>
    /\ (Called /\ result[1] = "Ok") => (LookupHit /\ Decoded[1] = "Ok")
    /\ Called => result[1] \in {"Ok", "Err", "Panic"}

C2_Witness ==
    /\ LookupHit
    /\ Len(log.topics) > Len(IndexedParams) + 1
    /\ result = <<"Err", "DecodingError", "TopicLengthMismatch">>

\* C3: with unique parameter names and a full decoder result, the record
\* has the definition's name and exactly the declared names as keys, each
\* mapped to the normalization of the value at its place in its partition
C3_RecordMatchesDefinition ==
    (DecodedInFull /\ Distinct(ExpectedNames)) =>
        /\ result[1] = "Ok"
        /\ result[2] = Definition.name
        /\ result[3][1] = "Object"
        /\ Len(Data) = Len(Definition.inputs)
        /\ Distinct(MapKeys(Data))
        /\ Range(MapKeys(Data)) = {Definition.inputs[i].name : i \in DOMAIN Definition.inputs}
        /\ \A i \in DOMAIN IndexedParams :
              MapGet(Data, IndexedParams[i].name) = DynSolToJson(Decoded[2][i])
        /\ \A j \in DOMAIN BodyParams :
              MapGet(Data, BodyParams[j].name) = DynSolToJson(Decoded[3][j])

C3_Witness ==
    /\ DecodedInFull
    /\ Distinct(ExpectedNames)
    /\ IndexedParams # <<>>
    /\ BodyParams # <<>>
    /\ result[1] = "Ok"
    /\ Len(Data) = 2

RECURSIVE FirstOccurrences(_)
FirstOccurrences(s) ==
    IF s = <<>> THEN <<>>
    ELSE LET init == FirstOccurrences(SubSeq(s, 1, Len(s) - 1))
         IN  IF s[Len(s)] \in Range(init) THEN init ELSE Append(init, s[Len(s)])

C9_EmptyTopicsPanic ==
    (Called /\ log.topics = <<>>) => result = <<"Panic">>

C9_Witness ==
    /\ Called
    /\ log.topics = <<>>
    /\ abi = <<>>
    /\ result = <<"Panic">>

\* the value of the last pair of ExpectedPairs that is named k
LastValue(k) ==
    LET is == {i \in DOMAIN ExpectedPairs : ExpectedPairs[i][1] = k}
    IN  ExpectedPairs[CHOOSE i \in is : \A j \in is : j <= i][2]

\* C10: a definition that declares a name more than once still parses; the
\* mapping holds one entry for each name, with the normalization of the
\* last pair of that name in indexed-then-body order, and so fewer keys
\* than the definition has parameters
C10_DuplicateNames ==
    (DecodedInFull /\ ~Distinct(ExpectedNames)) =>
        /\ result[1] = "Ok"
        /\ Distinct(MapKeys(Data))
        /\ Range(MapKeys(Data)) = Range(ExpectedNames)
        /\ \A k \in Range(ExpectedNames) :
              MapGet(Data, k) = DynSolToJson(LastValue(k))
        /\ Len(Data) < Len(Definition.inputs)

C10_Witness ==
    /\ DecodedInFull
    /\ Len(IndexedParams) = 1
    /\ Len(BodyParams) = 1
    /\ IndexedParams[1].name = BodyParams[1].name
    /\ DynSolToJson(Decoded[2][1]) # DynSolToJson(Decoded[3][1])
    /\ result[1] = "Ok"
    /\ Data = << <<BodyParams[1].name, DynSolToJson(Decoded[3][1])>> >>

----------------------------------------------------------------------------
(* The properties of dyn_sol_to_json, over the last call's value and its   *)
(* result.                                                                 *)

Normalized == val[1] # "None"

\* the struct of the last call has as many field names as values
StructInFull ==
    /\ Normalized
    /\ val[1] = "CustomStruct"
    /\ Len(val[3]) = Len(val[4])

\* C6 as claimed: a named struct gives the object that maps every field
\* name n_i to the normalization of v_i and holds no other key
C6_StructFieldsPaired ==
    StructInFull =>
        /\ json[1] = "Object"
        /\ Range(MapKeys(json[2])) = Range(val[3])
        /\ \A i \in DOMAIN val[3] :
              MapGet(json[2], val[3][i]) = DynSolToJson(val[4][i])

\* C6 as amended: every field name is a key once and there is no other
\* key; a name maps to the normalization of the value at the last place
\* that holds the name, which is v_i when the names are pairwise distinct
C6_StructFieldsPairedLastWins ==
    StructInFull =>
        /\ json[1] = "Object"
        /\ Distinct(MapKeys(json[2]))
        /\ Range(MapKeys(json[2])) = Range(val[3])
        /\ \A i \in DOMAIN val[3] :
              (\A j \in DOMAIN val[3] : val[3][j] = val[3][i] => j <= i)
                  => MapGet(json[2], val[3][i]) = DynSolToJson(val[4][i])

C6_Witness ==
    /\ val = <<"CustomStruct", "S", <<"a", "b">>,
               << <<"Bool", TRUE>>, <<"String", "x">> >> >>
    /\ json = <<"Object", << <<"a", <<"Bool", TRUE>>>>,
                             <<"b", <<"String", "x">>>> >> >>

\* C7: an array, a fixed array or a tuple of e_1..e_n gives the JSON array
\* of the n normalized elements in the same order, the same for all three
C7_SequencesToArrays ==
    (Normalized /\ val[1] \in SequenceTags) =>
        /\ json[1] = "Array"
        /\ Len(json[2]) = Len(val[2])
        /\ \A i \in DOMAIN val[2] : json[2][i] = DynSolToJson(val[2][i])
        /\ \A t \in SequenceTags : DynSolToJson(<<t, val[2]>>) = json

C7_Witness ==
    /\ val = <<"Array", << <<"Tuple", << <<"Bool", TRUE>>, <<"String", "x">> >> >>,
                           <<"String", "x">> >> >>
    /\ json = <<"Array", << <<"Array", << <<"Bool", TRUE>>, <<"String", "x">> >> >>,
                            <<"String", "x">> >> >>

\* the JSON shape the root variant of a decoded value is given
ExpectedShape(v) ==
    IF v[1] = "Bool" THEN "Bool"
    ELSE IF v[1] \in LeafTags THEN "String"
    ELSE IF v[1] \in SequenceTags THEN "Array"
    ELSE "Object"

\* a JSON value all the way down
RECURSIVE IsJson(_)
IsJson(j) ==
    CASE j[1] = "Bool"   -> j[2] \in BOOLEAN
      [] j[1] = "String" -> Len(j) = 2
      [] j[1] = "Array"  -> \A i \in DOMAIN j[2] : IsJson(j[2][i])
      [] j[1] = "Object" -> \A i \in DOMAIN j[2] : IsJson(j[2][i][2])
      [] OTHER           -> FALSE

\* C8: on every value built from the twelve variants dyn_sol_to_json
\* returns a JSON value, of the shape its root variant is given
C8_TotalWithShape ==
    Normalized =>
        /\ IsJson(json)
        /\ json[1] = ExpectedShape(val)

C8_Witness ==
    /\ Normalized
    /\ val[1] = "CustomStruct"
    /\ Depth(val) = 2
    /\ \E i \in DOMAIN val[4] :
          /\ val[4][i][1] = "Tuple"
          /\ val[4][i][2] # <<>>
          /\ val[4][i][2][1][1] = "Bool"
    /\ json[1] = "Object"
    /\ IsJson(json)

====
